---- MODULE Spec2Model ----
(***************************************************************************)
(* Model of src/src/utils/matchUrl.js: matching of a location against a    *)
(* route descriptor (path pattern, query matchers, hash matcher), with the *)
(* module-level pattern cache, query-parse cache and cacheCount.           *)
(*                                                                         *)
(* Representation.                                                         *)
(*  - A path or a path pattern is a sequence of lexemes: "/" , a literal   *)
(*    segment ("a", "b") or, in a pattern, a named parameter (":id").      *)
(*    The string "/" is <<"/">>, the empty string is <<>>.                 *)
(*  - A query string is a sequence of <<key, value>> pairs ("x=1&y=" is    *)
(*    << <<"x","1">>, <<"y","">> >>), the empty string is <<>>.            *)
(*  - Other JavaScript values are records tagged with their typeof.        *)
(*  - An object (parsed query, params) is a function from its keys.        *)
(*  - A matcher map is a sequence of <<key, expected>> pairs, in the       *)
(*    object's enumeration order (for..in visits keys in that order).      *)
(*  - pathToRegexp is path-to-regexp 1.x (tokensToRegExp), the library the *)
(*    matchedPath normalisation of line 77 is written against.             *)
(***************************************************************************)
EXTENDS Naturals, Sequences, FiniteSets, TLC

VARIABLES patternCache, cacheCount, queries, nextId, call, ret, evaluated, issued, pinned

\* patternCache, cacheCount, queries: the module state of lines 126-130.
\* nextId: the identity the next allocated compiled pattern gets.
\* call, ret, evaluated: the last call made, the value it returned and the
\*   matchVal calls it made, in order.
\* issued: the identities compilePath has returned so far.
\* pinned: for each (pattern, partial, strict) compiled while cacheCount was
\*   below the ceiling, the identity that call returned.
vars == <<patternCache, cacheCount, queries, nextId, call, ret, evaluated, issued, pinned>>

(***************************************************************************)
(* Bounds of the model.                                                    *)
(***************************************************************************)
\* The ceiling of line 129 is 10000; the model runs the same code with a
\* small ceiling so that the latch engages within the explored states.
cacheLimit == 2

\* Compiled-pattern objects the heap may allocate.
MaxObjects == 4

(***************************************************************************)
(* JavaScript values.                                                      *)
(***************************************************************************)
Undefined == [t |-> "undefined"]

Null == [t |-> "object", class |-> "null"]

Str(s) == [t |-> "string", s |-> s]

Bool(b) == [t |-> "boolean", b |-> b]

Num(n) == [t |-> "number", n |-> n]

\* A predicate, given by the set of values it returns true on.
Fn(name, accepts) == [t |-> "function", name |-> name, accepts |-> accepts]

\* A RegExp (no g/y flag), given by the set of strings it tests true on.
RegExp(name, accepts) == [t |-> "object", class |-> "RegExp", name |-> name, accepts |-> accepts]

typeof(v) == v.t

instanceofRegExp(v) == v.t = "object" /\ v.class = "RegExp"

\* ToBoolean, as `!x`, `x && y` and `x || y` apply it.
Truthy(v) ==
  CASE v.t = "undefined" -> FALSE
    [] v.t = "boolean" -> v.b
    [] v.t = "string" -> v.s # ""
    [] v.t = "number" -> v.n # 0
    [] v.t = "object" -> v.class # "null"
    [] OTHER -> TRUE

\* ToString, as RegExp.prototype.test applies it to its argument.
toStringJS(v) ==
  CASE v.t = "undefined" -> "undefined"
    [] v.t = "string" -> v.s
    [] v.t = "object" /\ v.class = "null" -> "null"
    [] OTHER -> "[object]"

\* obj[key] of an object held as a function from its keys.
Get(obj, key) == IF key \in DOMAIN obj THEN obj[key] ELSE Undefined

EmptyObject == [k \in {} |-> Undefined]

\* The own properties of a value that the model reads by key: those of a
\* plain object; a function has none of the keys the model reads.
Own(v) == IF "props" \in DOMAIN v THEN v.props ELSE EmptyObject

\* What an object literal inherits: `queries` (line 126) is `{}`, so
\* queries[search] finds Object.prototype's properties under their names.
ObjectPrototype ==
  [k \in {"toString"} |-> [t |-> "function", name |-> "Object.prototype.toString", accepts |-> {}]]

(***************************************************************************)
(* pathToRegexp(pattern, keys, {end, strict}) and RegExp.prototype.exec    *)
(***************************************************************************)
ParamLexemes == {":id", ":n"}

ParamName(lex) == IF lex = ":id" THEN "id" ELSE "n"

Fail == [fail |-> TRUE]

\* The names pushed to `keys`, in declaration order.
RECURSIVE keysOf(_)
keysOf(pattern) ==
  IF pattern = <<>> THEN <<>>
  ELSE IF Head(pattern) \in ParamLexemes
       THEN <<ParamName(Head(pattern))>> \o keysOf(Tail(pattern))
       ELSE keysOf(Tail(pattern))

\* The route: a literal lexeme matches itself, a parameter is the capture
\* group ([^\/]+?) (its "/" prefix is the literal lexeme before it).
routeOf(pattern) ==
  [i \in 1..Len(pattern) |->
     IF pattern[i] \in ParamLexemes THEN [kind |-> "cap"]
     ELSE [kind |-> "lit", c |-> pattern[i]]]

\* tokensToRegExp: without strict a trailing delimiter of the route is
\* dropped and (?:\/(?=$))? appended; then $ when end, else (?=\/|$) unless
\* strict and the route ends with the delimiter.
pathToRegexp(pattern, end, strict) ==
  LET route == routeOf(pattern)
      endsWithDelimiter == Len(route) > 0 /\ route[Len(route)] = [kind |-> "lit", c |-> "/"]
  IN [route |-> IF ~strict /\ endsWithDelimiter THEN SubSeq(route, 1, Len(route) - 1) ELSE route,
      trail |-> ~strict,
      tail  |-> IF end THEN "end"
                ELSE IF strict /\ endsWithDelimiter THEN "none" ELSE "lookahead"]

\* The assertion closing the expression, at position pos of the input.
atTail(re, path, pos) ==
  CASE re.tail = "end" -> pos = Len(path) + 1
    [] re.tail = "lookahead" -> pos = Len(path) + 1 \/ path[pos] = "/"
    [] OTHER -> TRUE

\* (?:\/(?=$))? is greedy: the slash is taken first, then given back.
execTail(re, path, pos) ==
  IF re.trail /\ pos = Len(path) /\ path[pos] = "/" /\ atTail(re, path, pos + 1)
  THEN [last |-> pos, caps |-> <<>>]
  ELSE IF atTail(re, path, pos) THEN [last |-> pos - 1, caps |-> <<>>]
  ELSE Fail

RECURSIVE execFrom(_, _, _, _)
RECURSIVE execCapture(_, _, _, _, _)
\* The backtracking match of route[i..] at position pos.
execFrom(re, path, i, pos) ==
  IF i > Len(re.route) THEN execTail(re, path, pos)
  ELSE IF re.route[i].kind = "lit"
       THEN IF pos <= Len(path) /\ path[pos] = re.route[i].c
            THEN execFrom(re, path, i + 1, pos + 1)
            ELSE Fail
       ELSE execCapture(re, path, i, pos, 1)

\* ([^\/]+?) is lazy: the shortest capture that lets the rest match.
execCapture(re, path, i, pos, k) ==
  IF pos + k - 1 > Len(path) \/ path[pos + k - 1] = "/" THEN Fail
  ELSE LET rest == execFrom(re, path, i + 1, pos + k)
       IN IF rest # Fail
          THEN [rest EXCEPT !.caps = <<SubSeq(path, pos, pos + k - 1)>> \o @]
          ELSE execCapture(re, path, i, pos, k + 1)

\* re.exec(path): Null, or the array [matched substring, ...captured values].
exec(re, path) ==
  LET m == execFrom(re, path, 1, 1)
  IN IF m = Fail THEN Null
     ELSE [t |-> "object", class |-> "Array", elems |-> <<SubSeq(path, 1, m.last)>> \o m.caps]

(***************************************************************************)
(* compilePath and the pattern cache (lines 126-152)                       *)
(***************************************************************************)
\* Mutant of cacheKey: the strict flag left out of the key.
cacheKeyWithoutStrict(partial, strict) == IF partial THEN "tf" ELSE "ff"

\* `${partial ? 't' : 'f'}${strict ? 't' : 'f'}`
cacheKey(partial, strict) ==
  CASE partial /\ strict -> "tt"
    [] partial /\ ~strict -> "tf"
    [] ~partial /\ strict -> "ft"
    [] OTHER -> "ff"

NoEntries == [p \in {} |-> Undefined]

\* patternCache[cacheKey] || (patternCache[cacheKey] = {})
withBucket(pc, key) ==
  IF key \in DOMAIN pc THEN pc ELSE [k \in DOMAIN pc \cup {key} |-> IF k = key THEN NoEntries ELSE pc[k]]

\* Mutant of isCached: the lookup never finds the entry.
isCachedNever(cache, pattern) == FALSE

\* if (cache[pattern]) ...: a stored compiled pattern is an object, truthy.
isCached(cache, pattern) == pattern \in DOMAIN cache

\* cache[pattern] = compiledPattern
store(cache, pattern, compiledPattern) ==
  [p \in DOMAIN cache \cup {pattern} |-> IF p = pattern THEN compiledPattern ELSE cache[p]]

\* Mutant of belowLimit: no ceiling.
belowLimitAlways(count) == TRUE

\* Mutant of belowLimit: the ceiling off by one.
belowLimitInclusive(count) == count <= cacheLimit

\* if (cacheCount < cacheLimit)
belowLimit(count) == count < cacheLimit

\* const compiledPattern = { re, keys }, a new object: id is its identity.
newCompiled(id, pattern, partial, strict) ==
  [re |-> pathToRegexp(pattern, ~partial, strict), id |-> id, keys |-> keysOf(pattern)]

\* compilePath(pattern, options) run on the module state (pc, count), with
\* nid the identity of the next object allocated.  Gives the returned value
\* and the module state after the call.
compilePath(pattern, options, pc, count, nid) ==
  LET isPartial == options.partial
      isStrict == options.strict
      key == cacheKey(isPartial, isStrict)
      pc1 == withBucket(pc, key)
      cache == pc1[key]
      compiledPattern == newCompiled(nid, pattern, isPartial, isStrict)
  IN IF isCached(cache, pattern)
     THEN [patternCache |-> pc1, cacheCount |-> count, nextId |-> nid,
           value |-> cache[pattern], hit |-> TRUE]
     ELSE IF belowLimit(count)
          THEN [patternCache |-> [pc1 EXCEPT ![key] = store(cache, pattern, compiledPattern)],
                cacheCount |-> count + 1,
                nextId |-> nid + 1, value |-> compiledPattern, hit |-> FALSE]
          ELSE [patternCache |-> pc1, cacheCount |-> count, nextId |-> nid + 1,
                value |-> compiledPattern, hit |-> FALSE]

(***************************************************************************)
(* matchVal, parseSearch, matchQuery, matchPath (lines 83-124)             *)
(***************************************************************************)
\* A plain object with the given properties.
Obj(props) == [t |-> "object", class |-> "Object", props |-> props]

\* A matcher map: a plain object whose own keys enumerate in this order.
MatcherMap(entries) == [t |-> "object", class |-> "Object", entries |-> entries]

\* Mutant of matchVal: a boolean matcher honours its own value (false asks
\* for an absent or blank value).
matchValByBooleanValue(val, expected) ==
  LET type == typeof(expected)
  IN IF type = "boolean" THEN expected.b = (val # Str("") /\ val # Undefined)
     ELSE IF type = "string" THEN expected = val
     ELSE IF type = "function" THEN val \in expected.accepts
     ELSE IF instanceofRegExp(expected) THEN toStringJS(val) \in expected.accepts
     ELSE TRUE

\* matchVal(val, expected)
matchVal(val, expected) ==
  LET type == typeof(expected)
  IN IF type = "boolean" THEN val # Str("") /\ val # Undefined
     ELSE IF type = "string" THEN expected = val
     ELSE IF type = "function" THEN val \in expected.accepts
     ELSE IF instanceofRegExp(expected) THEN toStringJS(val) \in expected.accepts
     ELSE TRUE

\* A query string is held as the sequence of its "&"-separated parts, a part
\* being <<key, value>> for "key=value" and <<key>> for a bare "key".
\* qs.parse(search): the mapping of each key of the query string to its
\* value, null for a bare key (the query strings of the model repeat no key).
qsParse(search) ==
  Obj([k \in {search[i][1] : i \in 1..Len(search)} |->
         LET part == search[CHOOSE i \in 1..Len(search) : search[i][1] = k]
         IN IF Len(part) = 2 THEN Str(part[2]) ELSE Null])

\* queries[search]: the own entry, else the property inherited under the
\* text of the query string, else undefined.
lookup(search, qc) ==
  IF search \in DOMAIN qc THEN qc[search]
  ELSE IF Len(search) = 1 /\ Len(search[1]) = 1 /\ search[1][1] \in DOMAIN ObjectPrototype
       THEN ObjectPrototype[search[1][1]]
       ELSE Undefined

\* queries[search] || (queries[search] = qs.parse(search)): the value and
\* the query-parse cache after the call.
parseSearch(search, qc) ==
  IF Truthy(lookup(search, qc))
  THEN [queries |-> qc, value |-> lookup(search, qc)]
  ELSE [queries |-> [q \in DOMAIN qc \cup {search} |-> IF q = search THEN qsParse(search) ELSE qc[q]],
        value |-> qsParse(search)]

\* The for..in loop of matchQuery from entry i on: whether every key passed,
\* and the matchVal calls made, the loop returning at the first failure.
RECURSIVE matchEntries(_, _, _)
matchEntries(query, entries, i) ==
  IF i > Len(entries) THEN [evaluated |-> <<>>, ok |-> TRUE]
  ELSE LET key == entries[i][1]
           val == Get(Own(query), key)
           expected == entries[i][2]
           step == [key |-> key, val |-> val, expected |-> expected, site |-> "query"]
       IN IF ~matchVal(val, expected)
          THEN [evaluated |-> <<step>>, ok |-> FALSE]
          ELSE LET rest == matchEntries(query, entries, i + 1)
               IN [evaluated |-> <<step>> \o rest.evaluated, ok |-> rest.ok]

\* matchQuery(search, matcher): the value returned (Null or the parsed
\* query), the query-parse cache after the call, the matchVal calls made.
matchQuery(search, matcher, qc) ==
  LET parsed == IF search # <<>> THEN parseSearch(search, qc)
                ELSE [queries |-> qc, value |-> Obj(EmptyObject)]
      query == parsed.value
  IN IF ~Truthy(matcher)
     THEN [queries |-> parsed.queries, evaluated |-> <<>>, value |-> query]
     ELSE LET loop == matchEntries(query, matcher.entries, 1)
          IN [queries |-> parsed.queries,
              evaluated |-> loop.evaluated, value |-> IF loop.ok THEN query ELSE Null]

\* matchPath(path, matcher, options): { match, keys } and the pattern-cache
\* state after compilePath.
matchPath(path, matcher, options, pc, count, nid) ==
  LET c == compilePath(matcher, options, pc, count, nid)
  IN [keys |-> c.value.keys, match |-> exec(c.value.re, path), compiled |-> c]

(***************************************************************************)
(* matchUrl, the default export (lines 41-81)                              *)
(***************************************************************************)
\* transform(value, name): the application itself, so that two results are
\* equal only when the function and both arguments are.
Apply(transform, value, name) ==
  [t |-> "object", class |-> "Applied", name |-> name, value |-> value, fn |-> transform.name]

\* Mutant of assign: a key already set keeps its value.
assignOnce(obj, key, value) ==
  [k \in DOMAIN obj \cup {key} |-> IF k \in DOMAIN obj THEN obj[k] ELSE value]

\* params[key.name] = ...
assign(obj, key, value) ==
  [k \in DOMAIN obj \cup {key} |-> IF k = key THEN value ELSE obj[k]]

\* keys.reduce((params, key, index) => ..., {}) from index i on.
RECURSIVE reduceKeys(_, _, _, _, _)
reduceKeys(keys, values, transform, i, params) ==
  IF i > Len(keys) THEN params
  ELSE reduceKeys(keys, values, transform, i + 1,
                  assign(params, keys[i], Apply(transform, values[i], keys[i])))

\* Mutant of matchedPathOf: the matched substring as it is.
matchedPathRaw(pattern, path) == path

\* matchedPath: matchers.path === '/' && path === '' ? '/' : path
matchedPathOf(pattern, path) ==
  IF pattern = <<"/">> /\ path = <<>> THEN <<"/">> ELSE path

\* matchers.hash && !matchVal(hash, matchers.hash)
hashRejected(hash, matcher) == Truthy(matcher) /\ ~matchVal(hash, matcher)

\* The matchVal call of the hash check, made only when matchers.hash is truthy.
hashEvaluated(hash, matcher) ==
  IF Truthy(matcher)
  THEN << [key |-> "hash", val |-> hash, expected |-> matcher, site |-> "hash"] >>
  ELSE <<>>

\* if (transform) { params = keys.reduce(...) }
paramsOf(keys, values, transform) ==
  IF Truthy(transform) THEN Obj(reduceKeys(keys, values, transform, 1, EmptyObject))
  ELSE Undefined

\* Mutant of matchUrlFrom: the query is matched before the path match is
\* looked at.
matchUrlQueryFirst(l, matchers, options, qc, mp, mq) ==
  IF ~Truthy(mq.value) \/ ~Truthy(mp.match)
  THEN [queries |-> mq.queries, evaluated |-> mq.evaluated, value |-> Null,
        compiled |-> mp.compiled]
  ELSE IF hashRejected(l.hash, matchers.hash)
  THEN [queries |-> mq.queries,
        evaluated |-> mq.evaluated \o hashEvaluated(l.hash, matchers.hash),
        value |-> Null, compiled |-> mp.compiled]
  ELSE [queries |-> mq.queries,
        evaluated |-> mq.evaluated \o hashEvaluated(l.hash, matchers.hash),
        value |-> [t |-> "object", class |-> "Match",
                   partial |-> Bool(options.partial),
                   query |-> mq.value,
                   params |-> paramsOf(mp.keys, Tail(mp.match.elems), options.transform),
                   hash |-> l.hash,
                   matchers |-> matchers,
                   matchedPath |-> matchedPathOf(matchers.path, Head(mp.match.elems))],
        compiled |-> mp.compiled]

\* Lines 49-80 of matchUrl, given mp = matchPath(...) of line 48 and
\* mq = matchQuery(...) of line 51 (read only once the path has matched).
matchUrlFrom(l, matchers, options, qc, mp, mq) ==
  IF ~Truthy(mp.match)
  THEN [queries |-> qc, evaluated |-> <<>>, value |-> Null, compiled |-> mp.compiled]
  ELSE IF ~Truthy(mq.value)
  THEN [queries |-> mq.queries, evaluated |-> mq.evaluated, value |-> Null,
        compiled |-> mp.compiled]
  ELSE IF hashRejected(l.hash, matchers.hash)
  THEN [queries |-> mq.queries,
        evaluated |-> mq.evaluated \o hashEvaluated(l.hash, matchers.hash),
        value |-> Null, compiled |-> mp.compiled]
  ELSE [queries |-> mq.queries,
        evaluated |-> mq.evaluated \o hashEvaluated(l.hash, matchers.hash),
        value |-> [t |-> "object", class |-> "Match",
                   partial |-> Bool(options.partial),
                   query |-> mq.value,
                   params |-> paramsOf(mp.keys, Tail(mp.match.elems), options.transform),
                   hash |-> l.hash,
                   matchers |-> matchers,
                   matchedPath |-> matchedPathOf(matchers.path, Head(mp.match.elems))],
        compiled |-> mp.compiled]

\* matchUrl(l, matchers, options) for a Location object l, run on the module
\* state (pc, count, qc): the value returned, the module state after the
\* call, the matchVal calls made in order, the compilePath call's outcome.
matchUrl(l, matchers, options, pc, count, qc, nid) ==
  matchUrlFrom(l, matchers, options, qc,
               matchPath(l.pathname, matchers.path, options, pc, count, nid),
               matchQuery(l.search, matchers.query, qc))

(***************************************************************************)
(* The state machine: the module after load, and one action per function   *)
(* called on it.                                                           *)
(***************************************************************************)
NoPatternCache == [k \in {} |-> NoEntries]

NoQueries == [q \in {} |-> Undefined]

Init ==
  /\ patternCache = NoPatternCache
  /\ cacheCount = 0
  /\ queries = NoQueries
  /\ nextId = 0
  /\ call = [op |-> "none"]
  /\ ret = Undefined
  /\ evaluated = <<>>
  /\ issued = {}
  /\ pinned = [k \in {} |-> 0]

pairOf(pattern, options) == <<pattern, options.partial, options.strict>>

\* The bookkeeping of one compilePath call with outcome c.
Compiled(pattern, options, c) ==
  /\ c.hit \/ nextId < MaxObjects
  /\ patternCache' = c.patternCache
  /\ cacheCount' = c.cacheCount
  /\ nextId' = c.nextId
  /\ issued' = issued \cup {c.value.id}
  /\ pinned' = IF cacheCount < cacheLimit /\ pairOf(pattern, options) \notin DOMAIN pinned
               THEN [k \in DOMAIN pinned \cup {pairOf(pattern, options)} |->
                       IF k = pairOf(pattern, options) THEN c.value.id ELSE pinned[k]]
               ELSE pinned

\* compilePath(pattern, options)
Compile(pattern, options) ==
  \E c \in {compilePath(pattern, options, patternCache, cacheCount, nextId)} :
     /\ Compiled(pattern, options, c)
     /\ call' = [pattern |-> pattern, options |-> options, hit |-> c.hit,
                 op |-> "compile", countBefore |-> cacheCount,
                 repeat |-> call.op = "compile" /\ call.pattern = pattern
                            /\ call.options = options]
     /\ ret' = c.value
     /\ evaluated' = <<>>
     /\ UNCHANGED queries

\* matchUrl(l, matchers, options)
MatchUrl(l, matchers, options) ==
  \E r \in {matchUrl(l, matchers, options, patternCache, cacheCount, queries, nextId)} :
     /\ Compiled(matchers.path, options, r.compiled)
     /\ queries' = r.queries
     /\ call' = [options |-> options, hit |-> r.compiled.hit, l |-> l, matchers |-> matchers,
                 op |-> "matchUrl", countBefore |-> cacheCount]
     /\ ret' = r.value
     /\ evaluated' = r.evaluated

\* matchQuery(search, matcher)
MatchQuery(search, matcher) ==
  \E r \in {matchQuery(search, matcher, queries)} :
     /\ queries' = r.queries
     /\ call' = [search |-> search, matcher |-> matcher, op |-> "matchQuery"]
     /\ ret' = r.value
     /\ evaluated' = r.evaluated
     /\ UNCHANGED <<patternCache, cacheCount, nextId, issued, pinned>>

\* matchVal(val, expected)
MatchVal(val, expected) ==
  /\ call' = [val |-> val, expected |-> expected, op |-> "matchVal"]
  /\ ret' = Bool(matchVal(val, expected))
  /\ evaluated' = <<>>
  /\ UNCHANGED <<patternCache, cacheCount, queries, nextId, issued, pinned>>

(***************************************************************************)
(* compilePath alone: the pattern cache, its counter and the ceiling.      *)
(***************************************************************************)
CompilePatterns == {<<"/", "a">>, <<"/", ":id">>}

CompileOptions == [partial : BOOLEAN, strict : BOOLEAN]

NextCompile == \E p \in CompilePatterns, o \in CompileOptions : Compile(p, o)

SpecCompile == Init /\ [][NextCompile]_vars

\* Every entry of the pattern cache: <<bucket key, pattern, identity>>.
Entries(pc) == UNION {{<<k, p, pc[k][p].id>> : p \in DOMAIN pc[k]} : k \in DOMAIN pc}

\* Whether the last call was compilePath.
IsCompile(c) == c.op = "compile"

\* C3: a (pattern, options) pair compiled while the counter was below the
\* ceiling keeps its cache entry for good, and every compile of that pair,
\* whatever was compiled in between, returns that very object.
C3_CachedReferenceReused ==
  /\ \A pair \in DOMAIN pinned :
       LET key == cacheKey(pair[2], pair[3])
       IN /\ key \in DOMAIN patternCache
          /\ pair[1] \in DOMAIN patternCache[key]
          /\ patternCache[key][pair[1]].id = pinned[pair]
  /\ (IsCompile(call) /\ pairOf(call.pattern, call.options) \in DOMAIN pinned)
       => /\ ret.id = pinned[pairOf(call.pattern, call.options)]
          /\ ret = patternCache[cacheKey(call.options.partial, call.options.strict)][call.pattern]

\* A cache hit on a pair pinned earlier, after the ceiling was reached and
\* an uncached pattern was compiled in between.
C3_Witness ==
  /\ IsCompile(call) /\ call.hit /\ ~call.repeat
  /\ call.countBefore = cacheLimit
  /\ nextId > cacheLimit
  /\ pairOf(call.pattern, call.options) \in DOMAIN pinned
  /\ ret.id = pinned[pairOf(call.pattern, call.options)]

C10_CounterCountsEntries ==
  /\ [](cacheCount = Cardinality(Entries(patternCache)) /\ cacheCount <= cacheLimit)
  /\ [][/\ cacheCount' >= cacheCount
        /\ IsCompile(call') =>
             IF call'.hit
             THEN cacheCount' = cacheCount /\ Entries(patternCache') = Entries(patternCache)
             ELSE cacheCount < cacheLimit =>
                    /\ cacheCount' = cacheCount + 1
                    /\ Entries(patternCache') =
                         Entries(patternCache) \cup
                           {<<cacheKey(call'.options.partial, call'.options.strict),
                              call'.pattern, ret'.id>>}
                    /\ Cardinality(Entries(patternCache')) = Cardinality(Entries(patternCache)) + 1]_vars

\* The miss that takes the counter to the ceiling, with two buckets in use.
C10_Witness ==
  /\ IsCompile(call) /\ ~call.hit
  /\ call.countBefore = cacheLimit - 1
  /\ cacheCount = cacheLimit
  /\ Cardinality({e[1] : e \in Entries(patternCache)}) >= 2

(***************************************************************************)
(* matchUrl over the caches.                                               *)
(***************************************************************************)
\* A transform, distinguishable by its name in what it returns.
Transform == Fn("transform", {})

Location(pathname, search, hash) == [search |-> search, hash |-> hash, pathname |-> pathname]

Matchers(path, query, hash) == [path |-> path, query |-> query, hash |-> hash]

Options(p, s, transform) == [strict |-> s, partial |-> p, transform |-> transform]

IsMatchUrl(c) == c.op = "matchUrl"

CachePaths == {<<"/", "a", "/">>, <<"/", "a", "/", "b">>}

CacheSearches == {<<>>, << <<"x", "1">> >>}

\* <<partial, strict>>
CacheFlags == {<<FALSE, FALSE>>, <<FALSE, TRUE>>, <<TRUE, FALSE>>}

Next ==
  \E pathname \in CachePaths, search \in CacheSearches,
     path \in CompilePatterns, flags \in CacheFlags :
       MatchUrl(Location(pathname, search, Str("")), Matchers(path, Undefined, Undefined),
                Options(flags[1], flags[2], Transform))

Spec == Init /\ [][Next]_vars

\* C1: whatever the pattern cache, the query-parse cache and the counter
\* hold, matchUrl returns what it returns on the module as loaded (empty
\* caches, counter 0): null in the same cases, and the same result otherwise.
C1_CachesDoNotChangeResult ==
  IsMatchUrl(call) =>
    ret = matchUrl(call.l, call.matchers, call.options,
                   NoPatternCache, 0, NoQueries, 0).value

\* A non-null result served from both caches with the counter at the ceiling.
C1_Witness ==
  /\ IsMatchUrl(call) /\ call.hit
  /\ call.countBefore = cacheLimit
  /\ nextId > cacheLimit
  /\ call.l.search # <<>>
  /\ ret # Null
  /\ ret.params.props # EmptyObject

(***************************************************************************)
(* matchUrl: the order of the path, query and hash checks.                 *)
(***************************************************************************)
IsOne == Fn("isOne", {Str("1")})

IsSec == Fn("isSec", {Str("sec")})

OrderPaths == {<<"/", "a">>, <<"/", "b">>}

OrderQueryMatchers == {Undefined, MatcherMap(<< <<"x", IsOne>> >>)}

Fragments == {Str(""), Str("sec"), Str("other")}

HashMatchers ==
  {Undefined, Bool(TRUE), Bool(FALSE), Str(""), Str("sec"), IsSec, RegExp("/^sec$/", {"sec"})}

NextOrder ==
  \E pathname \in OrderPaths, search \in CacheSearches, fragment \in Fragments,
     query \in OrderQueryMatchers, hm \in HashMatchers :
       MatchUrl(Location(pathname, search, fragment), Matchers(<<"/", "a">>, query, hm),
                Options(FALSE, FALSE, Undefined))

SpecOrder == Init /\ [][NextOrder]_vars

\* Whether the pattern, compiled afresh for the options, fails on the pathname.
PathFails(c) ==
  exec(pathToRegexp(c.matchers.path, ~c.options.partial, c.options.strict), c.l.pathname) = Null

\* The query of a search string, parsed afresh.
ParsedQuery(search) == IF search = <<>> THEN Obj(EmptyObject) ELSE qsParse(search)

\* The entries a matcher map declares (none when the map is absent).
Declared(matcher) == IF Truthy(matcher) THEN matcher.entries ELSE <<>>

\* Whether some declared key fails matchVal against its parsed value.
SomeKeyFails(search, matcher) ==
  \E i \in 1..Len(Declared(matcher)) :
    ~matchVal(Get(ParsedQuery(search).props, Declared(matcher)[i][1]), Declared(matcher)[i][2])

\* C2: a supplied matchers.hash, whatever its form, is applied to the
\* fragment, and matchUrl returns null when it rejects the fragment.
C2_SuppliedHashIsApplied ==
  (IsMatchUrl(call) /\ call.matchers.hash # Undefined
     /\ ~matchVal(call.l.hash, call.matchers.hash))
    => ret = Null

\* C9: when the path fails, matchUrl returns null having made no matchVal
\* call and left the query-parse cache as it was; when the path matches and
\* the query fails, it returns null having made no matchVal call for the
\* hash; a hash check is the last matchVal call of a call.
C9_FailFast ==
  [][IsMatchUrl(call') =>
       /\ PathFails(call') => (ret' = Null /\ evaluated' = <<>> /\ queries' = queries)
       /\ (~PathFails(call') /\ SomeKeyFails(call'.l.search, call'.matchers.query))
            => (ret' = Null /\ \A i \in 1..Len(evaluated') : evaluated'[i].site = "query")
       /\ \A i \in 1..Len(evaluated') - 1 : evaluated'[i].site = "query"]_vars

\* A failed path match on a location whose query string is not in the cache,
\* with a query predicate and a hash matcher supplied.
C9_Witness ==
  /\ IsMatchUrl(call) /\ PathFails(call)
  /\ call.l.search # <<>> /\ call.l.search \notin DOMAIN queries
  /\ Truthy(call.matchers.query) /\ Truthy(call.matchers.hash)
  /\ ret = Null /\ evaluated = <<>>

(***************************************************************************)
(* matchUrl: params.                                                       *)
(***************************************************************************)
ParamPatterns == {<<"/", "a">>, <<"/", ":id">>, <<"/", ":id", "/", ":n">>, <<"/", ":id", "/", ":id">>}

ParamPaths == {<<"/", "a">>, <<"/", "a", "/", "b">>, <<"/", "b", "/", "b">>}

NextParams ==
  \E pathname \in ParamPaths, path \in ParamPatterns, transform \in {Undefined, Transform} :
    MatchUrl(Location(pathname, <<>>, Str("")), Matchers(path, Undefined, Undefined),
             Options(FALSE, FALSE, transform))

SpecParams == Init /\ [][NextParams]_vars

\* The values the pattern, compiled afresh, captures from the pathname.
Captured(c) ==
  Tail(exec(pathToRegexp(c.matchers.path, ~c.options.partial, c.options.strict),
            c.l.pathname).elems)

\* The last position at which the name at position i is declared.
LastOf(names, i) ==
  CHOOSE j \in i..Len(names) :
    names[j] = names[i] /\ \A k \in (j + 1)..Len(names) : names[k] # names[i]

\* C7 as stated: params is set exactly when a transform is supplied, holds
\* one entry per declared name, and the entry of the i-th name is
\* transform(i-th captured value, i-th name).
C7_ParamsPositional ==
  (IsMatchUrl(call) /\ ret # Null) =>
    LET names == keysOf(call.matchers.path)
    IN /\ (ret.params # Undefined) <=> (call.options.transform # Undefined)
       /\ call.options.transform # Undefined =>
            /\ DOMAIN ret.params.props = {names[i] : i \in 1..Len(names)}
            /\ \A i \in 1..Len(names) :
                 ret.params.props[names[i]] =
                   Apply(call.options.transform, Captured(call)[i], names[i])

\* C7 amended: the entry of a name is transform(captured value, name) for
\* the last position at which the name is declared.
C7_ParamsLastDeclaration ==
  (IsMatchUrl(call) /\ ret # Null) =>
    LET names == keysOf(call.matchers.path)
    IN /\ (ret.params # Undefined) <=> (call.options.transform # Undefined)
       /\ call.options.transform # Undefined =>
            /\ DOMAIN ret.params.props = {names[i] : i \in 1..Len(names)}
            /\ \A i \in 1..Len(names) :
                 ret.params.props[names[i]] =
                   Apply(call.options.transform, Captured(call)[LastOf(names, i)], names[i])

\* A match with a transform on a pattern that declares one name twice and
\* captures two different values.
C7_Witness ==
  /\ IsMatchUrl(call) /\ ret # Null
  /\ call.options.transform # Undefined
  /\ keysOf(call.matchers.path) = <<"id", "id">>
  /\ Captured(call)[1] # Captured(call)[2]
  /\ DOMAIN ret.params.props = {"id"}

(***************************************************************************)
(* matchUrl: matchedPath.                                                  *)
(***************************************************************************)
\* <<pattern, partial, strict>>
RootPairs ==
  ({<<"/">>} \X BOOLEAN \X BOOLEAN) \cup {<<<<>>, FALSE, FALSE>>, <<<<>>, TRUE, FALSE>>}

RootPaths == {<<>>, <<"/">>, <<"/", "a">>, <<"/", "a", "/">>}

NextPath ==
  \E pathname \in RootPaths, pair \in RootPairs :
    MatchUrl(Location(pathname, <<>>, Str("")), Matchers(pair[1], Undefined, Undefined),
             Options(pair[2], pair[3], Undefined))

SpecPath == Init /\ [][NextPath]_vars

\* The substring the pattern, compiled afresh, matches in the pathname.
MatchedSubstring(c) ==
  Head(exec(pathToRegexp(c.matchers.path, ~c.options.partial, c.options.strict),
            c.l.pathname).elems)

\* C8: with the pattern "/" matchedPath is never the empty string, an empty
\* matched substring being reported as "/"; with any other pattern it is
\* the matched substring.
C8_MatchedPathNormalised ==
  (IsMatchUrl(call) /\ ret # Null) =>
    IF call.matchers.path = <<"/">>
    THEN /\ ret.matchedPath # <<>>
         /\ ret.matchedPath = IF MatchedSubstring(call) = <<>> THEN <<"/">>
                              ELSE MatchedSubstring(call)
    ELSE ret.matchedPath = MatchedSubstring(call)

\* The pattern "/" matching the empty substring.
C8_Witness ==
  /\ IsMatchUrl(call) /\ ret # Null
  /\ call.matchers.path = <<"/">>
  /\ MatchedSubstring(call) = <<>>
  /\ ret.matchedPath = <<"/">>

(***************************************************************************)
(* matchQuery alone.                                                       *)
(***************************************************************************)
QuerySearches ==
  {<<>>, << <<"x", "1">> >>, << <<"x", "">> >>, << <<"x", "1">>, <<"y", "2">> >>,
   << <<"toString">> >>}

QueryMatchers ==
  {Undefined, Null, MatcherMap(<<>>),
   MatcherMap(<< <<"x", Bool(TRUE)>> >>),
   MatcherMap(<< <<"x", Bool(FALSE)>> >>),
   MatcherMap(<< <<"x", Str("1")>> >>),
   MatcherMap(<< <<"x", Str("")>> >>),
   MatcherMap(<< <<"x", IsOne>> >>),
   MatcherMap(<< <<"z", Bool(TRUE)>> >>),
   MatcherMap(<< <<"z", Undefined>> >>),
   MatcherMap(<< <<"x", Str("1")>>, <<"y", Str("2")>> >>),
   MatcherMap(<< <<"x", Str("1")>>, <<"z", Bool(TRUE)>> >>),
   MatcherMap(<< <<"z", Null>>, <<"x", Str("1")>> >>)}

NextQuery == \E search \in QuerySearches, matcher \in QueryMatchers : MatchQuery(search, matcher)

SpecQuery == Init /\ [][NextQuery]_vars

IsMatchQuery(c) == c.op = "matchQuery"

\* C5: matchQuery returns null exactly when a key the matcher map declares
\* fails matchVal against its parsed value (undefined for an absent key);
\* otherwise, and whenever the map is absent, it returns the whole parsed
\* query ({} for the empty query string).
C5_MatchQuery ==
  IsMatchQuery(call) =>
    /\ (ret = Null) <=> SomeKeyFails(call.search, call.matcher)
    /\ ~SomeKeyFails(call.search, call.matcher) => ret = ParsedQuery(call.search)
    /\ ~Truthy(call.matcher) => ret = ParsedQuery(call.search)

(***************************************************************************)
(* matchVal alone.                                                         *)
(***************************************************************************)
ObservedValues == {Undefined, Str(""), Str("a"), Str("b"), Str("undefined")}

ExpectedValues ==
  {Bool(TRUE), Bool(FALSE), Str(""), Str("a"), Str("undefined"),
   Undefined, Null, Num(0), Num(1), Obj(EmptyObject)}
    \cup {Fn("predicate", accepts) : accepts \in SUBSET ObservedValues}
    \cup {RegExp("pattern", accepts) : accepts \in SUBSET {"", "a", "undefined"}}

NextVal == \E val \in ObservedValues, expected \in ExpectedValues : MatchVal(val, expected)

SpecVal == Init /\ [][NextVal]_vars

IsMatchVal(c) == c.op = "matchVal"

\* C6: the dispatch table.  boolean (true or false): observed is present and
\* not the empty string; string: equality; predicate: its result on
\* observed; pattern: its test on observed; anything else: true.
C6_DispatchTable ==
  IsMatchVal(call) =>
    ret = Bool(CASE call.expected.t = "boolean" ->
                      call.val.t = "string" /\ call.val.s # ""
                 [] call.expected.t = "string" ->
                      call.val.t = "string" /\ call.val.s = call.expected.s
                 [] call.expected.t = "function" ->
                      call.val \in call.expected.accepts
                 [] call.expected.t = "object" /\ call.expected.class = "RegExp" ->
                      (IF call.val.t = "string" THEN call.val.s ELSE "undefined")
                        \in call.expected.accepts
                 [] OTHER -> TRUE)

\* The boolean false accepting a present value.
C6_Witness ==
  /\ IsMatchVal(call)
  /\ call.expected = Bool(FALSE) /\ call.val = Str("a")
  /\ ret = Bool(TRUE)

====
